---- MODULE Spec2Model ----
(***************************************************************************)
(* Model of incal.py: the Streamlit influencer dashboard script.  One run  *)
(* of the script is a straight-line pipeline: load the upload, check the   *)
(* schema, normalise the numeric columns, fill nulls, cast the column      *)
(* types, compute four derived ratios, filter by country, render.          *)
(*                                                                         *)
(* Texts are sequences of one-character strings.  Numbers are decimal      *)
(* floating-point records  s * m * 10^e  (sign, mantissa without trailing  *)
(* zeros, exponent), together with inf and nan; arithmetic on them is      *)
(* exact decimal arithmetic, so the binary rounding of IEEE doubles is the *)
(* one thing the number model does not reproduce.                          *)
(***************************************************************************)
EXTENDS Integers, Sequences, FiniteSets, TLC

(***************************************************************************)
(* Values held by a table cell                                             *)
(***************************************************************************)

\* np.nan / a missing cell
NaN == [k |-> "nan", s |-> 1, m |-> 0, e |-> 0, t |-> << >>]

\* float('inf') with sign sg
Inf(sg) == [k |-> "inf", s |-> sg, m |-> 0, e |-> 0, t |-> << >>]

\* a text cell (object dtype)
Str(txt) == [k |-> "str", s |-> 1, m |-> 0, e |-> 0, t |-> txt]

RECURSIVE Pow10(_)
Pow10(n) == IF n = 0 THEN 1 ELSE 10 * Pow10(n - 1)

RECURSIVE NumDigits(_)
NumDigits(n) == IF n < 10 THEN 1 ELSE 1 + NumDigits(n \div 10)

RECURSIVE TrailingZeros(_)
TrailingZeros(n) == IF n = 0 \/ n % 10 # 0 THEN 0 ELSE 1 + TrailingZeros(n \div 10)

\* The leading nine significant digits of mantissa mm, zero padded.
Lead9(mm) ==
    LET d == NumDigits(mm)
    IN  IF d <= 9 THEN mm * Pow10(9 - d) ELSE mm \div Pow10(d - 9)

\* The double with value sg * mm * 10^ee (mm >= 0): a finite float in
\* canonical form, or inf on overflow (the largest finite double is
\* 1.7976931348623157e308), or signed zero on underflow (below 1e-323).
MkFloat(sg, mm, ee) ==
    IF mm = 0 THEN [k |-> "fin", s |-> sg, m |-> 0, e |-> 0, t |-> << >>]
    ELSE LET z  == TrailingZeros(mm)
             m2 == mm \div Pow10(z)
             e2 == ee + z
             top == NumDigits(m2) + e2
         IN  IF top > 309 \/ (top = 309 /\ Lead9(m2) > 179769313)
             THEN Inf(sg)
             ELSE IF top < 0 - 323
             THEN [k |-> "fin", s |-> sg, m |-> 0, e |-> 0, t |-> << >>]
             ELSE [k |-> "fin", s |-> sg, m |-> m2, e |-> e2, t |-> << >>]

\* A Python int (int64 column element) with value sg * mm * 10^ee.
MkInt(sg, mm, ee) ==
    IF mm = 0 THEN [k |-> "int", s |-> 1, m |-> 0, e |-> 0, t |-> << >>]
    ELSE LET z == TrailingZeros(mm)
         IN  [k |-> "int", s |-> sg, m |-> mm \div Pow10(z), e |-> ee + z, t |-> << >>]

IsZero(x) == x.k \in {"fin", "int"} /\ x.m = 0

\* x * 10^n in float arithmetic (x a float): lines 13 and 18 multiply by
\* 1_000 and 1_000_000.
TimesPow10(x, n) ==
    IF x.k = "fin" THEN MkFloat(x.s, x.m, x.e + n) ELSE x

(***************************************************************************)
(* Text helpers (str methods)                                              *)
(***************************************************************************)
Digits == <<"0", "1", "2", "3", "4", "5", "6", "7", "8", "9">>

DigitSet == {Digits[i] : i \in 1..10}

DigitVal(c) == (CHOOSE i \in 1..10 : Digits[i] = c) - 1

Contains(txt, c) == \E i \in 1..Len(txt) : txt[i] = c

\* str.replace(c, '')
Remove(txt, c) == SelectSeq(txt, LAMBDA x : x # c)

UpperLetters ==
    <<"A", "B", "C", "D", "E", "F", "G", "H", "I", "J", "K", "L", "M",
      "N", "O", "P", "Q", "R", "S", "T", "U", "V", "W", "X", "Y", "Z">>

LowerLetters ==
    <<"a", "b", "c", "d", "e", "f", "g", "h", "i", "j", "k", "l", "m",
      "n", "o", "p", "q", "r", "s", "t", "u", "v", "w", "x", "y", "z">>

\* str.lower() on one character
LowerChar(c) ==
    IF \E i \in 1..26 : UpperLetters[i] = c
    THEN LowerLetters[CHOOSE i \in 1..26 : UpperLetters[i] = c]
    ELSE c

Lower(txt) == [i \in 1..Len(txt) |-> LowerChar(txt[i])]

RECURSIVE LStrip(_)
LStrip(txt) ==
    IF txt # << >> /\ Head(txt) = " " THEN LStrip(Tail(txt)) ELSE txt

RECURSIVE RStrip(_)
RStrip(txt) ==
    IF txt # << >> /\ txt[Len(txt)] = " "
    THEN RStrip(SubSeq(txt, 1, Len(txt) - 1)) ELSE txt

\* str.strip()
Strip(txt) == RStrip(LStrip(txt))

\* index of the first occurrence of c in txt, 0 when absent
IndexOf(txt, c) ==
    IF Contains(txt, c) THEN CHOOSE i \in 1..Len(txt) :
                                 txt[i] = c /\ \A j \in 1..(i - 1) : txt[j] # c
    ELSE 0

RECURSIVE Zeros(_)
Zeros(n) == IF n <= 0 THEN << >> ELSE <<"0">> \o Zeros(n - 1)

RECURSIVE DigitsOf(_)
DigitsOf(n) ==
    IF n < 10 THEN <<Digits[n + 1]>> ELSE DigitsOf(n \div 10) \o <<Digits[(n % 10) + 1]>>

(***************************************************************************)
(* float(s): Python's string-to-float conversion                           *)
(***************************************************************************)
RECURSIVE SeqVal(_)
SeqVal(ds) ==
    IF ds = << >> THEN 0
    ELSE SeqVal(SubSeq(ds, 1, Len(ds) - 1)) * 10 + DigitVal(ds[Len(ds)])

RECURSIVE DropLeadingZeros(_)
DropLeadingZeros(ds) ==
    IF ds # << >> /\ Head(ds) = "0" THEN DropLeadingZeros(Tail(ds)) ELSE ds

RECURSIVE CountTrailingZeros(_)
CountTrailingZeros(ds) ==
    IF ds # << >> /\ ds[Len(ds)] = "0"
    THEN 1 + CountTrailingZeros(SubSeq(ds, 1, Len(ds) - 1)) ELSE 0

\* digitpart ::= digit (["_"] digit)*
IsDigitPart(ds) ==
    /\ ds # << >>
    /\ \A i \in 1..Len(ds) : ds[i] \in DigitSet \cup {"_"}
    /\ ds[1] # "_" /\ ds[Len(ds)] # "_"
    /\ \A i \in 1..(Len(ds) - 1) : ~(ds[i] = "_" /\ ds[i + 1] = "_")

\* The parts of a decimal literal body (no sign): mantissa text and exponent
\* text, split at the first "e".
MantissaText(body) ==
    LET i == IndexOf(body, "e") IN IF i = 0 THEN body ELSE SubSeq(body, 1, i - 1)

ExponentText(body) ==
    LET i == IndexOf(body, "e") IN SubSeq(body, i + 1, Len(body))

IntText(mant) ==
    LET i == IndexOf(mant, ".") IN IF i = 0 THEN mant ELSE SubSeq(mant, 1, i - 1)

FracText(mant) ==
    LET i == IndexOf(mant, ".") IN IF i = 0 THEN << >> ELSE SubSeq(mant, i + 1, Len(mant))

\* floatnumber ::= (digitpart ["." [digitpart]] | "." digitpart) [exponent]
IsMantissa(mant) ==
    LET ip == IntText(mant)
        fp == FracText(mant)
    IN  /\ ip # << >> \/ fp # << >>
        /\ ip = << >> \/ IsDigitPart(ip)
        /\ fp = << >> \/ IsDigitPart(fp)

\* exponent ::= "e" ["+" | "-"] digitpart
IsExponent(ex) ==
    /\ ex # << >>
    /\ IsDigitPart(IF Head(ex) \in {"+", "-"} THEN Tail(ex) ELSE ex)

ExponentVal(ex) ==
    LET ds == Remove(IF Head(ex) \in {"+", "-"} THEN Tail(ex) ELSE ex, "_")
        v  == SeqVal(DropLeadingZeros(ds))
    IN  IF Head(ex) = "-" THEN 0 - v ELSE v

IsDecimalBody(body) ==
    /\ IsMantissa(MantissaText(body))
    /\ Contains(body, "e") => IsExponent(ExponentText(body))

DecimalBodyVal(sg, body) ==
    LET mant == MantissaText(body)
        ip   == Remove(IntText(mant), "_")
        fp   == Remove(FracText(mant), "_")
        x    == IF Contains(body, "e") THEN ExponentVal(ExponentText(body)) ELSE 0
        all  == ip \o fp
        tz   == CountTrailingZeros(all)
        sig  == DropLeadingZeros(SubSeq(all, 1, Len(all) - tz))
    IN  MkFloat(sg, SeqVal(sig), x - Len(fp) + tz)

\* float(txt): [ok |-> FALSE] stands for ValueError.
ParseFloat(txt) ==
    LET st   == Lower(Strip(txt))
        sg   == IF st # << >> /\ Head(st) = "-" THEN 0 - 1 ELSE 1
        body == IF st # << >> /\ Head(st) \in {"+", "-"} THEN Tail(st) ELSE st
    IN  IF body \in {<<"i", "n", "f">>, <<"i", "n", "f", "i", "n", "i", "t", "y">>}
        THEN [ok |-> TRUE, v |-> Inf(sg)]
        ELSE IF body = <<"n", "a", "n">>
        THEN [ok |-> TRUE, v |-> NaN]
        ELSE IF IsDecimalBody(body)
        THEN [ok |-> TRUE, v |-> DecimalBodyVal(sg, body)]
        ELSE [ok |-> FALSE, v |-> NaN]

(***************************************************************************)
(* str(value): Python's formatting of ints and floats                      *)
(***************************************************************************)
SignText(sg) == IF sg < 0 THEN <<"-">> ELSE << >>

\* str(int)
FormatInt(x) == SignText(x.s) \o DigitsOf(x.m) \o Zeros(x.e)

\* repr(float): shortest digits; fixed notation when the decimal exponent of
\* the leading digit is in -4..15, scientific otherwise.
FormatFloat(x) ==
    IF x.k = "nan" THEN <<"n", "a", "n">>
    ELSE IF x.k = "inf" THEN SignText(x.s) \o <<"i", "n", "f">>
    ELSE IF x.m = 0 THEN SignText(x.s) \o <<"0", ".", "0">>
    ELSE LET ds == DigitsOf(x.m)
             n  == Len(ds)
             X  == n - 1 + x.e
             ax == IF X < 0 THEN 0 - X ELSE X
         IN  SignText(x.s) \o
             ( IF X >= 0 - 4 /\ X < 16
               THEN IF x.e >= 0 THEN ds \o Zeros(x.e) \o <<".", "0">>
                    ELSE IF X >= 0
                    THEN SubSeq(ds, 1, X + 1) \o <<".">> \o SubSeq(ds, X + 2, n)
                    ELSE <<"0", ".">> \o Zeros(0 - X - 1) \o ds
               ELSE <<ds[1]>>
                    \o (IF n > 1 THEN <<".">> \o SubSeq(ds, 2, n) ELSE << >>)
                    \o <<"e", IF X < 0 THEN "-" ELSE "+">>
                    \o (IF ax < 10 THEN <<"0">> ELSE << >>) \o DigitsOf(ax) )

\* str(value) as line 10 applies it to a cell that is not null
ToText(x) ==
    CASE x.k = "str" -> x.t
      [] x.k = "int" -> FormatInt(x)
      [] OTHER -> FormatFloat(x)

(***************************************************************************)
(* clean_numeric_value (lines 7-25)                                        *)
(***************************************************************************)
\* line 8: pd.isna(value)
IsNa(x) == x.k = "nan"

\* line 10 removing '.' as the thousands separator instead of ','
PrepareDropsDot(x) == Remove(Remove(Lower(Strip(ToText(x))), "."), "%")

\* line 10 without .lower()
PrepareNoLower(x) == Remove(Remove(Strip(ToText(x)), ","), "%")

\* line 10: str(value).strip().lower().replace(',', '').replace('%', '')
Prepare(x) == Remove(Remove(Lower(Strip(ToText(x))), ","), "%")

\* the multiplication of lines 13 and 18 left out
ParseScaledNoScale(txt, n) ==
    LET p == ParseFloat(txt)
    IN  IF p.ok THEN p.v ELSE NaN

\* float(txt) * 10^n inside try/except ValueError -> np.nan
ParseScaled(txt, n) ==
    LET p == ParseFloat(txt)
    IN  IF p.ok THEN TimesPow10(p.v, n) ELSE NaN

clean_numeric_value(value) ==
    IF IsNa(value) THEN NaN
    ELSE LET sv == Prepare(value)
         IN  IF Contains(sv, "k") THEN ParseScaled(Remove(sv, "k"), 3)
             ELSE IF Contains(sv, "m") THEN ParseScaled(Remove(sv, "m"), 6)
             ELSE ParseScaled(sv, 0)

(***************************************************************************)
(* The DataFrame and the column lists of the script                        *)
(***************************************************************************)
\* lines 47-50
required_columns ==
    <<"rank", "influence_score", "posts", "followers", "avg_likes",
      "60_day_eng_rate", "new_post_avg_like", "total_likes", "country", "channel_info">>

\* line 59
columns_to_clean ==
    <<"rank", "followers", "posts", "avg_likes", "new_post_avg_like", "total_likes",
      "60_day_eng_rate", "influence_score">>

\* lines 68-69
numeric_columns ==
    <<"rank", "influence_score", "posts", "followers", "avg_likes",
      "60_day_eng_rate", "new_post_avg_like", "total_likes">>

\* lines 78-88: the casts in the order the try block performs them
cast_plan ==
    << <<"rank", "int">>, <<"influence_score", "float">>, <<"posts", "int">>,
       <<"followers", "int">>, <<"avg_likes", "float">>, <<"60_day_eng_rate", "float">>,
       <<"new_post_avg_like", "float">>, <<"total_likes", "int">>,
       <<"country", "str">>, <<"channel_info", "str">> >>

\* lines 95-110: the four derived columns
derived_columns ==
    {"Engagement Rate (Calculated)", "Growth Rate in New Post Likes",
     "Like-to-Follower Ratio", "Post Efficiency"}

Range(f) == {f[i] : i \in DOMAIN f}

\* df = None (line 31)
NoFrame == [columns |-> {}, rows |-> << >>]

\* A DataFrame: its column names and its rows, each row a function from the
\* column names to cells.
ColumnValues(d, col) == {d.rows[i][col] : i \in DOMAIN d.rows}

(***************************************************************************)
(* Schema check (lines 52-56)                                              *)
(***************************************************************************)
\* missing_columns computed over columns_to_clean instead of required_columns
missing_columns_to_clean(d) == SelectSeq(columns_to_clean, LAMBDA c : c \notin d.columns)

\* line 52: [col for col in required_columns if col not in df.columns]
missing_columns(d) == SelectSeq(required_columns, LAMBDA c : c \notin d.columns)

(***************************************************************************)
(* Cleaning (lines 59-72)                                                  *)
(***************************************************************************)
\* lines 60-62: df[col] = df[col].apply(clean_numeric_value) for each column
\* of columns_to_clean that the frame has (the columns do not interact)
ApplyCleaning(d) ==
    LET cs == Range(columns_to_clean) \cap d.columns
    IN  [d EXCEPT !.rows = [i \in DOMAIN d.rows |->
                               [c \in DOMAIN d.rows[i] |->
                                   IF c \in cs THEN clean_numeric_value(d.rows[i][c])
                                   ELSE d.rows[i][c]]]]

\* lines 63-64: the warning for each column that is not there
CleaningWarnings(d) ==
    LET absent == SelectSeq(columns_to_clean, LAMBDA c : c \notin d.columns)
    IN  [i \in 1..Len(absent) |->
            [w |-> "warning", a |-> "column_not_found", cols |-> <<absent[i]>>]]

\* fillna left out
FillValueKeepsNull(x) == x

\* line 72: fillna(0) on one cell of a float column
FillValue(x) == IF IsNa(x) THEN MkFloat(1, 0, 0) ELSE x

\* lines 70-72: fillna(0) on each numeric column the frame has and that
\* holds a null
FillNulls(d) ==
    LET cs == {col \in Range(numeric_columns) \cap d.columns :
                  \E x \in ColumnValues(d, col) : IsNa(x)}
    IN  [d EXCEPT !.rows = [i \in DOMAIN d.rows |->
                               [c \in DOMAIN d.rows[i] |->
                                   IF c \in cs THEN FillValue(d.rows[i][c])
                                   ELSE d.rows[i][c]]]]

(***************************************************************************)
(* Type conversions (lines 75-91)                                          *)
(***************************************************************************)
\* float -> int64: truncation toward zero (numpy cast of a finite value)
TruncToInt(x) ==
    IF x.k = "int" THEN x
    ELSE IF x.e >= 0 THEN MkInt(x.s, x.m, x.e)
    ELSE IF NumDigits(x.m) <= 0 - x.e THEN MkInt(1, 0, 0)
    ELSE MkInt(x.s, x.m \div Pow10(0 - x.e), 0)

AsFloat(x) == IF x.k = "int" THEN MkFloat(x.s, x.m, x.e) ELSE x

\* astype(str) on one cell
AsStr(x) == IF x.k = "str" THEN x ELSE Str(ToText(x))

\* Series.astype(ty) raises: a missing column (KeyError), or a non-finite
\* value in a cast to int (IntCastingNaNError); both are Exceptions.
CastRaises(d, col, ty) ==
    \/ col \notin d.columns
    \/ ty = "int" /\ \E x \in ColumnValues(d, col) : x.k \in {"nan", "inf", "str"}
    \/ ty = "float" /\ \E x \in ColumnValues(d, col) : x.k = "str"

CastValue(x, ty) ==
    CASE ty = "int" -> TruncToInt(x)
      [] ty = "float" -> AsFloat(x)
      [] OTHER -> AsStr(x)

\* The try block: the casts run in order until one raises; the frame keeps
\* the casts made before it.  ok tells whether the block ended normally.
ConvertTypes(d) ==
    LET bad  == {i \in 1..Len(cast_plan) : CastRaises(d, cast_plan[i][1], cast_plan[i][2])}
        stop == IF bad = {} THEN Len(cast_plan) + 1
                ELSE CHOOSE i \in bad : \A j \in bad : i <= j
        ty   == [c \in {cast_plan[i][1] : i \in 1..(stop - 1)} |->
                    cast_plan[CHOOSE i \in 1..(stop - 1) : cast_plan[i][1] = c][2]]
    IN  [ok |-> bad = {},
         df |-> [d EXCEPT !.rows = [i \in DOMAIN d.rows |->
                                       [c \in DOMAIN d.rows[i] |->
                                           IF c \in DOMAIN ty
                                           THEN CastValue(d.rows[i][c], ty[c])
                                           ELSE d.rows[i][c]]]]]

(***************************************************************************)
(* Calculated fields (lines 95-110)                                        *)
(***************************************************************************)
\* A derived value: s * (n / d) * 10^e with n/d in lowest terms and d coprime
\* to 10, or inf, or nan; "zde" stands for a raised ZeroDivisionError.
Ratio(kind, sg, nn, dd, ee) == [k |-> kind, s |-> sg, n |-> nn, d |-> dd, e |-> ee]

RECURSIVE GCD(_, _)
GCD(a, b) == IF b = 0 THEN a ELSE GCD(b, a % b)

RECURSIVE Canon(_, _, _, _)
Canon(sg, nn, dd, ee) ==
    IF dd % 2 = 0 THEN Canon(sg, nn * 5, dd \div 2, ee - 1)
    ELSE IF dd % 5 = 0 THEN Canon(sg, nn * 2, dd \div 5, ee - 1)
    ELSE LET g == GCD(nn, dd)
             n1 == nn \div g
             z  == TrailingZeros(n1)
         IN  Ratio("fin", sg, n1 \div Pow10(z), dd \div g, ee + z)

\* a / b as Python evaluates it on a row's elements
Div(a, b) ==
    IF IsZero(b) THEN Ratio("zde", 1, 0, 1, 0)
    ELSE IF a.k = "nan" \/ b.k = "nan" THEN Ratio("nan", 1, 0, 1, 0)
    ELSE IF a.k = "inf"
    THEN IF b.k = "inf" THEN Ratio("nan", 1, 0, 1, 0) ELSE Ratio("inf", a.s * b.s, 0, 1, 0)
    ELSE IF b.k = "inf" \/ a.m = 0 THEN Ratio("fin", a.s * b.s, 0, 1, 0)
    ELSE Canon(a.s * b.s, a.m, b.m, a.e - b.e)

\* r * 100
Times100(r) == IF r.k = "fin" /\ r.n # 0 THEN [r EXCEPT !.e = r.e + 2] ELSE r

\* a - b on floats
Sub(a, b) ==
    IF a.k = "nan" \/ b.k = "nan" THEN NaN
    ELSE IF a.k = "inf" THEN (IF b.k = "inf" /\ b.s = a.s THEN NaN ELSE a)
    ELSE IF b.k = "inf" THEN Inf(0 - b.s)
    ELSE LET lo == IF a.e < b.e THEN a.e ELSE b.e
             va == a.s * a.m * Pow10(a.e - lo)
             vb == b.s * b.m * Pow10(b.e - lo)
             v  == va - vb
         IN  IF v = 0
             THEN MkFloat(IF a.m = 0 /\ b.m = 0 /\ a.s < 0 /\ b.s > 0 THEN 0 - 1 ELSE 1, 0, 0)
             ELSE MkFloat(IF v < 0 THEN 0 - 1 ELSE 1, IF v < 0 THEN 0 - v ELSE v, lo)

\* the literal 0 of the else branches
ZeroLiteral == Ratio("int", 1, 0, 1, 0)

\* x != 0
NonZero(x) == ~IsZero(x)

\* lines 95-98
EngagementRate(row) ==
    IF NonZero(row["followers"])
    THEN Times100(Div(row["avg_likes"], row["followers"])) ELSE ZeroLiteral

\* lines 99-102
GrowthRate(row) ==
    IF NonZero(row["avg_likes"])
    THEN Times100(Div(Sub(row["new_post_avg_like"], row["avg_likes"]), row["avg_likes"]))
    ELSE ZeroLiteral

\* lines 103-106
LikeToFollower(row) ==
    IF NonZero(row["followers"])
    THEN Div(row["total_likes"], row["followers"]) ELSE ZeroLiteral

\* Post Efficiency guarded on followers instead of posts
PostEfficiencyGuardFollowers(row) ==
    IF NonZero(row["followers"])
    THEN Div(row["total_likes"], row["posts"]) ELSE ZeroLiteral

\* lines 107-110
PostEfficiency(row) ==
    IF NonZero(row["posts"])
    THEN Div(row["total_likes"], row["posts"]) ELSE ZeroLiteral

DerivedValue(row, c) ==
    CASE c = "Engagement Rate (Calculated)" -> EngagementRate(row)
      [] c = "Growth Rate in New Post Likes" -> GrowthRate(row)
      [] c = "Like-to-Follower Ratio" -> LikeToFollower(row)
      [] OTHER -> PostEfficiency(row)

\* the frame with the four derived columns added
WithDerived(d) ==
    [columns |-> d.columns \cup derived_columns,
     rows |-> [i \in DOMAIN d.rows |->
                  [c \in DOMAIN d.rows[i] \cup derived_columns |->
                      IF c \in derived_columns THEN DerivedValue(d.rows[i], c)
                      ELSE d.rows[i][c]]]]

\* some row's lambda raised ZeroDivisionError
DerivationRaises(d) ==
    \E i \in DOMAIN d.rows : \E c \in derived_columns : DerivedValue(d.rows[i], c).k = "zde"

(***************************************************************************)
(* Country filter (lines 121-133)                                          *)
(***************************************************************************)
\* line 123: df['country'].unique()
CountryOptions(d) == ColumnValues(d, "country")

\* line 128: df[df['country'].isin(selected_country)]
FilterRows(d, sel) ==
    [d EXCEPT !.rows = SelectSeq(d.rows, LAMBDA r : r["country"] \in sel)]

\* lines 139-284: the st.metric and st.plotly_chart calls, in order
dashboard_output ==
    << [w |-> "metric", a |-> "Total Influencers", cols |-> << >>],
       [w |-> "metric", a |-> "Average Engagement Rate (60-Day)", cols |-> << >>],
       [w |-> "metric", a |-> "Total Followers Across Influencers", cols |-> << >>],
       [w |-> "metric", a |-> "Average Likes per Post", cols |-> << >>],
       [w |-> "chart", a |-> "fig_top_influencers", cols |-> << >>],
       [w |-> "chart", a |-> "fig_map", cols |-> << >>],
       [w |-> "chart", a |-> "fig_scatter", cols |-> << >>],
       [w |-> "chart", a |-> "fig_eng_hist", cols |-> << >>],
       [w |-> "chart", a |-> "fig_country_bar", cols |-> << >>],
       [w |-> "chart", a |-> "fig_bubble", cols |-> << >>],
       [w |-> "chart", a |-> "fig_heatmap", cols |-> << >>] >>

(***************************************************************************)
(* State                                                                   *)
(***************************************************************************)
VARIABLES
    pc,               \* position of the script run
    uploaded_file,    \* what the file uploader holds: "none", "unreadable", "ok"
    source,           \* the table pd.read_csv yields for the upload
    df,               \* the DataFrame (NoFrame while df is None)
    msgs,             \* the Streamlit output of the run, in order
    executed,         \* the stages of the script that have run, in order
    selected_country, \* the multiselect's value
    filtered_df,      \* line 128
    cell,             \* normalisation of one cell: the raw value
    result,           \* normalisation of one cell: the current value
    step,             \* normalisation of one cell: position
    first_pass,       \* repeated cleaning: the frame after the first pass
    passes            \* repeated cleaning: passes made

vars ==
    <<pc, uploaded_file, source, df, msgs, executed, selected_country, filtered_df,
      cell, result, step, first_pass, passes>>

runVars == <<pc, uploaded_file, source, df, msgs, executed, selected_country, filtered_df>>

cellVars == <<cell, result, step>>

passVars == <<first_pass, passes>>

Msg(kind, what) == [w |-> kind, a |-> what, cols |-> << >>]

(***************************************************************************)
(* Inputs                                                                  *)
(***************************************************************************)
MaxRows == 2
MaxDirty == 1
MaxMissing == 2
MaxLen == 3

NumericSet == Range(numeric_columns)

RequiredSet == Range(required_columns)

\* A clean row and an all-zero row.
ScenarioRow ==
    [c \in RequiredSet |->
        CASE c = "rank" -> Str(<<"1">>)
          [] c = "followers" -> Str(<<"3", ".", "3", "k">>)
          [] c = "avg_likes" -> Str(<<"1", "5", "0">>)
          [] c = "new_post_avg_like" -> Str(<<"2", "0", "0">>)
          [] c = "total_likes" -> Str(<<"5", "0", "0">>)
          [] c = "posts" -> Str(<<"1", "0">>)
          [] c = "influence_score" -> Str(<<"9", ".", "1">>)
          [] c = "60_day_eng_rate" -> Str(<<"4", ".", "5", "%">>)
          [] c = "country" -> Str(<<"U", "S", "A">>)
          [] OTHER -> Str(<<"x">>)]

ZeroRow ==
    [c \in RequiredSet |->
        CASE c = "country" -> Str(<<"I", "n", "d", "i", "a">>)
          [] c = "channel_info" -> Str(<<"y">>)
          [] OTHER -> Str(<<"0">>)]

BaseRows == {ScenarioRow, ZeroRow}

\* A row whose rank cannot be cast to int.
InfRow == [ScenarioRow EXCEPT !["rank"] = Str(<<"i", "n", "f">>)]

\* What a numeric column's cell may hold in an uploaded table.
PipelineCells ==
    {Str(<<"3", ".", "3", "k">>), Str(<<"1", ".", "2", "M">>), Str(<<"0">>),
     Str(<<"-", "5">>), Str(<<"a", "b", "c">>), Str(<<"i", "n", "f">>),
     NaN, MkInt(1, 12, 0)}

\* Base rows with up to n numeric cells replaced.
RECURSIVE DirtyRows(_)
DirtyRows(n) ==
    IF n = 0 THEN BaseRows
    ELSE LET prev == DirtyRows(n - 1)
         IN  prev \cup {[r EXCEPT ![c] = v] : r \in prev, c \in NumericSet, v \in PipelineCells}

\* The first row of a table: a dirty row, or a base row with no country.
HeadRows ==
    DirtyRows(MaxDirty) \cup {[r EXCEPT !["country"] = NaN] : r \in BaseRows}

\* The rows after the first: up to n all-zero rows.
TailSeqs(n) == {[i \in 1..j |-> ZeroRow] : j \in 0..n}

Frame(cols, rows) ==
    [columns |-> cols, rows |-> [i \in DOMAIN rows |-> [c \in cols |-> rows[i][c]]]]

\* Schema-valid tables: one to MaxRows rows.
FullTables ==
    {Frame(RequiredSet, <<h>> \o t) : h \in HeadRows, t \in TailSeqs(MaxRows - 1)}

\* Tables that lack one to MaxMissing required columns, with and without a
\* column the script does not know.
LackingTables ==
    {Frame((RequiredSet \ miss) \cup extra,
           <<[c \in RequiredSet \cup {"notes"} |->
                 IF c = "notes" THEN Str(<<"n">>) ELSE r[c]]>>) :
        miss \in {x \in SUBSET RequiredSet : Cardinality(x) \in 1..MaxMissing},
        extra \in {{}, {"notes"}},
        r \in BaseRows \cup {InfRow}}

SourceTables == FullTables \cup LackingTables

(***************************************************************************)
(* One run of the script                                                   *)
(***************************************************************************)
Init ==
    /\ pc = "load"
    /\ uploaded_file \in {"none", "unreadable", "ok"}
    /\ source \in IF uploaded_file = "ok" THEN SourceTables ELSE {NoFrame}
    /\ df = NoFrame
    /\ msgs = << >>
    /\ executed = << >>
    /\ selected_country = {}
    /\ filtered_df = NoFrame
    /\ cell = NaN /\ result = NaN /\ step = "off"
    /\ first_pass = NoFrame /\ passes = 0

\* lines 33-42
LoadData ==
    /\ pc = "load"
    /\ executed' = Append(executed, "load")
    /\ IF uploaded_file = "none"
       THEN /\ msgs' = Append(msgs, Msg("info", "upload_prompt"))
            /\ pc' = "stopped"
            /\ df' = df
       ELSE IF uploaded_file = "unreadable"
       THEN /\ msgs' = Append(msgs, Msg("sidebar.error", "read_error"))
            /\ pc' = "stopped"
            /\ df' = df
       ELSE /\ msgs' = Append(msgs, Msg("sidebar.success", "uploaded"))
            /\ pc' = "schema"
            /\ df' = source
    /\ UNCHANGED <<uploaded_file, source, selected_country, filtered_df, cellVars, passVars>>

\* SchemaCheck without the st.stop() of line 56
SchemaCheckNoStop ==
    /\ pc = "schema"
    /\ executed' = Append(executed, "schema")
    /\ IF missing_columns(df) # << >>
       THEN msgs' = Append(msgs, [w |-> "error", a |-> "missing_columns",
                                  cols |-> missing_columns(df)])
       ELSE msgs' = msgs
    /\ pc' = "clean"
    /\ UNCHANGED <<uploaded_file, source, df, selected_country, filtered_df, cellVars, passVars>>

\* lines 47-56
SchemaCheck ==
    /\ pc = "schema"
    /\ executed' = Append(executed, "schema")
    /\ IF missing_columns(df) # << >>
       THEN /\ msgs' = Append(msgs, [w |-> "error", a |-> "missing_columns",
                                     cols |-> missing_columns(df)])
            /\ pc' = "stopped"
       ELSE /\ msgs' = msgs
            /\ pc' = "clean"
    /\ UNCHANGED <<uploaded_file, source, df, selected_country, filtered_df, cellVars, passVars>>

\* lines 59-64
CleanColumns ==
    /\ pc = "clean"
    /\ executed' = Append(executed, "clean")
    /\ df' = ApplyCleaning(df)
    /\ msgs' = msgs \o CleaningWarnings(df)
    /\ pc' = "fillna"
    /\ UNCHANGED <<uploaded_file, source, selected_country, filtered_df, cellVars, passVars>>

\* lines 68-72
FillNa ==
    /\ pc = "fillna"
    /\ executed' = Append(executed, "fillna")
    /\ df' = FillNulls(df)
    /\ pc' = "convert"
    /\ UNCHANGED <<uploaded_file, source, msgs, selected_country, filtered_df, cellVars, passVars>>

\* lines 75-91
TypeConversions ==
    /\ pc = "convert"
    /\ executed' = Append(executed, "convert")
    /\ LET r == ConvertTypes(df)
       IN  /\ df' = r.df
           /\ IF r.ok
              THEN msgs' = msgs /\ pc' = "derive"
              ELSE /\ msgs' = Append(msgs, Msg("error", "type_conversion"))
                   /\ pc' = "stopped"
    /\ UNCHANGED <<uploaded_file, source, selected_country, filtered_df, cellVars, passVars>>

\* lines 95-110; an exception in a lambda is not caught
CalculatedFields ==
    /\ pc = "derive"
    /\ executed' = Append(executed, "derive")
    /\ IF DerivationRaises(df)
       THEN /\ df' = df
            /\ msgs' = Append(msgs, Msg("exception", "ZeroDivisionError"))
            /\ pc' = "crashed"
       ELSE /\ df' = WithDerived(df)
            /\ msgs' = msgs
            /\ pc' = "filter"
    /\ UNCHANGED <<uploaded_file, source, selected_country, filtered_df, cellVars, passVars>>

\* CountryFilter without the empty check of lines 131-133
CountryFilterNoEmptyCheck ==
    /\ pc = "filter"
    /\ executed' = Append(executed, "filter")
    /\ \E sel \in SUBSET CountryOptions(df) :
          /\ selected_country' = sel
          /\ filtered_df' = FilterRows(df, sel)
    /\ msgs' = msgs
    /\ pc' = "render"
    /\ UNCHANGED <<uploaded_file, source, df, cellVars, passVars>>

\* lines 121-133: the user's selection is any subset of the options
CountryFilter ==
    /\ pc = "filter"
    /\ executed' = Append(executed, "filter")
    /\ \E sel \in SUBSET CountryOptions(df) :
          /\ selected_country' = sel
          /\ filtered_df' = FilterRows(df, sel)
          /\ IF FilterRows(df, sel).rows = << >>
             THEN /\ msgs' = Append(msgs, Msg("warning", "empty_filter"))
                  /\ pc' = "stopped"
             ELSE /\ msgs' = msgs
                  /\ pc' = "render"
    /\ UNCHANGED <<uploaded_file, source, df, cellVars, passVars>>

\* lines 136-284
Render ==
    /\ pc = "render"
    /\ executed' = Append(executed, "render")
    /\ msgs' = msgs \o dashboard_output
    /\ pc' = "done"
    /\ UNCHANGED <<uploaded_file, source, df, selected_country, filtered_df, cellVars, passVars>>

Next ==
    \/ LoadData
    \/ SchemaCheck
    \/ CleanColumns
    \/ FillNa
    \/ TypeConversions
    \/ CalculatedFields
    \/ CountryFilter
    \/ Render

Spec == Init /\ [][Next]_vars

(***************************************************************************)
(* Normalisation, null-filling and casting of a single cell                *)
(***************************************************************************)
Alphabet == {"0", "1", "3", ".", "k", "K", "m", "M", ",", "%", " ", "-", "x"}

RECURSIVE TextsUpTo(_)
TextsUpTo(n) ==
    IF n = 0 THEN {<< >>}
    ELSE LET prev == TextsUpTo(n - 1)
         IN  prev \cup {Append(t, c) : t \in {u \in prev : Len(u) = n - 1}, c \in Alphabet}

SpecialTexts ==
    {<<"3", ".", "3", "k">>, <<"3", ".", "3", "K">>, <<"1", ".", "2", "M">>,
     <<" ", "1", ",", "2", "0", "0", ".", "5", "k", " ">>,
     <<"-", "0", ".", "0", "0", "1", "5", "k">>, <<"0", ".", "0", "0", "3", "1", "m">>,
     <<"1", ",", "2", "3", "4", ".", "5", "%">>, <<"4", ".", "5", "%">>,
     <<"i", "n", "f">>, <<"-", "I", "n", "f", "i", "n", "i", "t", "y">>, <<"n", "a", "n">>,
     <<"1", "e", "5">>, <<"1", "E", "1", "6">>, <<"1", "e", "-", "5">>,
     <<"1", "e", "9", "9", "9">>, <<"2", "e", "3", "0", "8", "k">>,
     <<"1", "_", "0", "0", "0">>, <<"a", "b", "c">>, <<"1", "k", "2", "m">>,
     <<"5", "m", "k">>, <<"1", "%", "3", "k">>}

CellInputs ==
    {Str(t) : t \in TextsUpTo(MaxLen) \cup SpecialTexts}
        \cup {NaN, Inf(1), MkInt(1, 33, 2), MkInt(0 - 1, 5, 0), MkFloat(1, 15, 1),
              MkFloat(1, 45, 0 - 1), MkFloat(1, 1, 16), MkFloat(1, 15, 0 - 6)}

InitCell ==
    /\ cell \in CellInputs
    /\ result = cell
    /\ step = "raw"
    /\ pc = "off" /\ uploaded_file = "none" /\ source = NoFrame /\ df = NoFrame
    /\ msgs = << >> /\ executed = << >> /\ selected_country = {} /\ filtered_df = NoFrame
    /\ first_pass = NoFrame /\ passes = 0

\* line 62 on one cell
NormalizeCell ==
    /\ step = "raw"
    /\ result' = clean_numeric_value(cell)
    /\ step' = "normalized"
    /\ UNCHANGED <<cell, runVars, passVars>>

\* line 72 on one cell
FillCell ==
    /\ step = "normalized"
    /\ result' = FillValue(result)
    /\ step' = "filled"
    /\ UNCHANGED <<cell, runVars, passVars>>

\* astype(int) on one cell (lines 78, 80, 81, 85)
CastCellInt ==
    /\ step = "filled"
    /\ IF result.k \in {"nan", "inf"}
       THEN result' = result /\ step' = "cast_error"
       ELSE result' = TruncToInt(result) /\ step' = "int"
    /\ UNCHANGED <<cell, runVars, passVars>>

\* astype(float) on one cell (lines 79, 82, 83, 84)
CastCellFloat ==
    /\ step = "filled"
    /\ result' = AsFloat(result)
    /\ step' = "float"
    /\ UNCHANGED <<cell, runVars, passVars>>

NextCell == NormalizeCell \/ FillCell \/ CastCellInt \/ CastCellFloat

SpecCell == InitCell /\ [][NextCell]_vars

(***************************************************************************)
(* Cleaning applied again to its own output: lines 59-91 run on the frame  *)
(* they produced                                                           *)
(***************************************************************************)
MaxPasses == 2

InitPass ==
    /\ uploaded_file = "ok"
    /\ source \in FullTables
    /\ df = source
    /\ pc = "clean"
    /\ first_pass = NoFrame /\ passes = 0
    /\ msgs = << >> /\ executed = << >> /\ selected_country = {} /\ filtered_df = NoFrame
    /\ cell = NaN /\ result = NaN /\ step = "off"

\* The cleaned frame is fed to the cleaning steps again.
CleanAgain ==
    /\ pc = "derive"
    /\ passes < MaxPasses
    /\ passes' = passes + 1
    /\ first_pass' = IF passes = 0 THEN df ELSE first_pass
    /\ pc' = "clean"
    /\ UNCHANGED <<uploaded_file, source, df, msgs, executed, selected_country,
                   filtered_df, cellVars>>

NextPass == CleanColumns \/ FillNa \/ TypeConversions \/ CleanAgain

SpecPass == InitPass /\ [][NextPass]_vars

(***************************************************************************)
(* Properties                                                              *)
(***************************************************************************)
StageOrder ==
    <<"load", "schema", "clean", "fillna", "convert", "derive", "filter", "render">>

IsPrefix(a, b) == Len(a) <= Len(b) /\ \A i \in 1..Len(a) : a[i] = b[i]

Ran(stage) == \E i \in DOMAIN executed : executed[i] = stage

IsFatal(mm) == mm.a \in {"read_error", "missing_columns", "type_conversion", "empty_filter"}

FatalIndexes == {i \in DOMAIN msgs : IsFatal(msgs[i])}

\* The number of stages that have run when the fatal condition is reported.
StagesAt(what) ==
    CASE what = "read_error" -> 1
      [] what = "missing_columns" -> 2
      [] what = "type_conversion" -> 5
      [] OTHER -> 7

Reported(what) == \E i \in DOMAIN msgs : msgs[i].a = what

Rendered == \E i \in DOMAIN msgs : msgs[i].w \in {"metric", "chart"}

LackedColumns == RequiredSet \ source.columns

\* C1: the stages run in the script's fixed order; at most one fatal
\* condition is reported in a run; it is the run's last output, the run has
\* stopped, and exactly the stages up to its check have run (read error after
\* load, missing columns after the schema check, type conversion after the
\* casts, empty filter after the filter), so nothing runs after it; an
\* unreadable source stops the run at load and missing columns stop it at the
\* schema check, whatever the cells hold.
C1_FatalOrder ==
    /\ IsPrefix(executed, StageOrder)
    /\ Cardinality(FatalIndexes) <= 1
    /\ \A i \in FatalIndexes :
          /\ i = Len(msgs)
          /\ pc = "stopped"
          /\ Len(executed) = StagesAt(msgs[i].a)
    /\ uploaded_file = "unreadable" => Len(executed) <= 1
    /\ (uploaded_file = "ok" /\ LackedColumns # {}) => Len(executed) <= 2

\* A run stopped by the type-conversion error, after exactly five stages.
C1_Witness ==
    /\ pc = "stopped"
    /\ Reported("type_conversion")
    /\ executed = SubSeq(StageOrder, 1, 5)

\* C2: once the schema check has run on a table that lacks required
\* columns, the run has stopped, its last output is the missing-columns error,
\* the error names each lacked column once and no other column, and no
\* derived column exists.
C2_MissingColumnsRejected ==
    (Ran("schema") /\ LackedColumns # {}) =>
        /\ pc = "stopped"
        /\ msgs # << >>
        /\ LET last == msgs[Len(msgs)]
           IN  /\ last.w = "error" /\ last.a = "missing_columns"
               /\ Range(last.cols) = LackedColumns
               /\ Len(last.cols) = Cardinality(LackedColumns)
        /\ df.columns \cap derived_columns = {}
        /\ ~Ran("derive")

\* A table with an unknown column that lacks country and one numeric column
\* has been rejected.
C2_Witness ==
    /\ Ran("schema")
    /\ LackedColumns = {"country", "posts"}
    /\ "notes" \in source.columns
    /\ pc = "stopped"

\* C3: no run reports the type-conversion error.
C3_NoTypeConversionFailure == ~Reported("type_conversion")

CleaningDone == Ran("convert") /\ ~Reported("type_conversion")

GarbageChars == {"a", "b", "c", "x"}

IsGarbage(x) == x.k = "str" /\ \E i \in DOMAIN x.t : x.t[i] \in GarbageChars

\* C4: once the casts have succeeded, every numeric cell of every row is a
\* number and not null, and it is 0 where the uploaded cell was null or
\* garbage text.
C4_NoNullSurvives ==
    CleaningDone =>
        \A i \in DOMAIN df.rows : \A c \in NumericSet :
            /\ df.rows[i][c].k \in {"int", "fin", "inf"}
            /\ (IsNa(source.rows[i][c]) \/ IsGarbage(source.rows[i][c])) => IsZero(df.rows[i][c])

\* A cleaned table with a float cell that was garbage and an int cell of
\* a row whose upload held garbage in an int column.
C4_Witness ==
    /\ CleaningDone
    /\ \E i \in DOMAIN df.rows : \E c \in {"avg_likes", "followers"} :
          source.rows[i][c] = Str(<<"a", "b", "c">>) /\ IsZero(df.rows[i][c])

IsZeroRatio(r) == r.k \in {"int", "fin"} /\ r.n = 0

\* C5: the derivation never raises; once it has run, a row with followers 0
\* has engagement rate 0 and like-to-follower ratio 0, a row with avg_likes 0
\* has growth rate 0, and a row with posts 0 has post efficiency 0.
C5_ZeroGuards ==
    /\ pc # "crashed"
    /\ Ran("derive") =>
          \A i \in DOMAIN df.rows :
              LET row == df.rows[i]
              IN  /\ IsZero(row["followers"]) =>
                        /\ IsZeroRatio(row["Engagement Rate (Calculated)"])
                        /\ IsZeroRatio(row["Like-to-Follower Ratio"])
                  /\ IsZero(row["avg_likes"]) =>
                        IsZeroRatio(row["Growth Rate in New Post Likes"])
                  /\ IsZero(row["posts"]) => IsZeroRatio(row["Post Efficiency"])

\* A derived row with posts 0 and followers not 0, whose engagement rate is
\* the quotient 150 / 3300 * 100 = 50/11.
C5_Witness ==
    /\ Ran("derive")
    /\ \E i \in DOMAIN df.rows :
          /\ IsZero(df.rows[i]["posts"])
          /\ ~IsZero(df.rows[i]["followers"])
          /\ df.rows[i]["Engagement Rate (Calculated)"] = Ratio("fin", 1, 5, 11, 1)

\* C6: when the cleaning steps run on a frame they produced, normalisation
\* leaves every numeric value as it was, and the frame after the casts is the
\* same frame.
C6_CleaningIdempotent ==
    /\ (passes >= 1 /\ pc = "fillna") =>
          \A i \in DOMAIN df.rows : \A c \in NumericSet :
              df.rows[i][c] = AsFloat(first_pass.rows[i][c])
    /\ (passes >= 1 /\ pc = "derive") => df = first_pass

\* A second pass has ended on a frame holding 3300 from "3.3k" and 9.1.
C6_Witness ==
    /\ passes >= 1 /\ pc = "derive"
    /\ \E i \in DOMAIN df.rows :
          /\ source.rows[i]["followers"] = Str(<<"3", ".", "3", "k">>)
          /\ df.rows[i]["followers"] = MkInt(1, 33, 2)
          /\ df.rows[i]["influence_score"] = MkFloat(1, 91, 0 - 1)

\* A plain decimal numeral with optional sign and thousands commas:
\* [sign] digits(,digits)* [. digits*]  or  [sign] . digits
Unsigned(t) == IF t # << >> /\ Head(t) \in {"+", "-"} THEN Tail(t) ELSE t

CommaDigits(t) ==
    /\ t # << >>
    /\ \A i \in DOMAIN t : t[i] \in DigitSet \cup {","}
    /\ t[1] # "," /\ t[Len(t)] # ","

IsNumeral(t) ==
    LET b  == Unsigned(t)
        ip == IntText(b)
        fp == FracText(b)
    IN  /\ ip # << >> \/ fp # << >>
        /\ ip = << >> \/ CommaDigits(ip)
        /\ \A i \in DOMAIN fp : fp[i] \in DigitSet

NumeralSign(t) == IF t # << >> /\ Head(t) = "-" THEN 0 - 1 ELSE 1

NumeralDigits(t) == Remove(IntText(Unsigned(t)), ",") \o FracText(Unsigned(t))

NumeralFracLen(t) == Len(FracText(Unsigned(t)))

\* The text is <numeral><letter>, in either case, with optional blanks around.
SuffixedNumeral(t, letter) ==
    LET u == Strip(t)
    IN  /\ Len(u) >= 2
        /\ LowerChar(u[Len(u)]) = letter
        /\ IsNumeral(SubSeq(u, 1, Len(u) - 1))

NumeralOf(t) == LET u == Strip(t) IN SubSeq(u, 1, Len(u) - 1)

\* numeral * 10^n as a float
ScaledNumeral(t, n) ==
    MkFloat(NumeralSign(t), SeqVal(NumeralDigits(t)), n - NumeralFracLen(t))

\* the integer part of numeral * 10^n
ScaledNumeralInt(t, n) ==
    LET ds    == NumeralDigits(t)
        shift == n - NumeralFracLen(t)
    IN  IF shift >= 0 THEN MkInt(NumeralSign(t), SeqVal(ds), shift)
        ELSE MkInt(NumeralSign(t), SeqVal(SubSeq(ds, 1, Len(ds) + shift)), 0)

SuffixScaled(letter, n) ==
    (cell.k = "str" /\ SuffixedNumeral(cell.t, letter)) =>
        /\ step \in {"normalized", "filled", "float"} =>
              result = ScaledNumeral(NumeralOf(cell.t), n)
        /\ step = "int" => result = ScaledNumeralInt(NumeralOf(cell.t), n)
        /\ step # "cast_error"

C8_RenderOnlyWhenValid ==
    /\ Rendered =>
          /\ uploaded_file = "ok"
          /\ LackedColumns = {}
          /\ CleaningDone
          /\ filtered_df.rows # << >>
    /\ (Ran("filter") /\ \A i \in DOMAIN df.rows : df.rows[i]["country"] \notin selected_country) =>
          /\ pc = "stopped"
          /\ msgs[Len(msgs)] = Msg("warning", "empty_filter")
          /\ ~Rendered

\* The empty selection on a two-country table ended the run at the filter.
C8_Witness ==
    /\ Ran("filter")
    /\ selected_country = {}
    /\ Cardinality(CountryOptions(df)) = 2
    /\ pc = "stopped"

NonNegative(x) == x.k \in {"int", "fin", "inf"} /\ (x.s > 0 \/ x.m = 0) /\ (x.k = "inf" => x.s > 0)

\* C9: once the casts have succeeded, posts, followers and total_likes are
\* integers >= 0 and avg_likes and new_post_avg_like are >= 0 in every row.
C9_CountsNonNegative ==
    CleaningDone =>
        \A i \in DOMAIN df.rows :
            /\ \A c \in {"posts", "followers", "total_likes"} :
                  df.rows[i][c].k = "int" /\ NonNegative(df.rows[i][c])
            /\ \A c \in {"avg_likes", "new_post_avg_like"} : NonNegative(df.rows[i][c])

\* The text the rules work on when only a trailing percent sign is removed:
\* trimmed, lowercased, commas removed, one trailing percent sign removed.
TrailingPercentText(t) ==
    LET u == Remove(Lower(Strip(t)), ",")
    IN  IF u # << >> /\ u[Len(u)] = "%" THEN SubSeq(u, 1, Len(u) - 1) ELSE u

\* The same with every percent sign removed.
AllPercentText(t) == Strip(Lower(Remove(Remove(t, "%"), ",")))

NumberOrNoValue(t, n) ==
    IF ParseFloat(t).ok THEN TimesPow10(ParseFloat(t).v, n) ELSE NaN

\* The decision by priority on the prepared text u.
PriorityRule(u) ==
    step = "normalized" /\ cell.k = "str" =>
        /\ Contains(u, "k") => result = NumberOrNoValue(Remove(u, "k"), 3)
        /\ (~Contains(u, "k") /\ Contains(u, "m")) => result = NumberOrNoValue(Remove(u, "m"), 6)
        /\ (~Contains(u, "k") /\ ~Contains(u, "m")) => result = NumberOrNoValue(u, 0)
        /\ result.k \in {"fin", "inf", "nan"}

\* C10 as stated: the rules k, then m, then direct parse decide on the text
\* trimmed, lowercased and freed of commas and of a trailing percent sign.
C10_PriorityTrailingPercent == PriorityRule(TrailingPercentText(cell.t))

\* C10 amended: the same, on the text freed of every comma and every
\* percent sign.
C10_PriorityAllPercent == PriorityRule(AllPercentText(cell.t))

\* A text with an inner percent sign and a k went to the k rule: 13 * 1000.
C10_Witness ==
    /\ step = "normalized"
    /\ cell = Str(<<"1", "%", "3", "k">>)
    /\ result = MkFloat(1, 13, 3)

====
